---- MODULE Spec2Model ----
(***************************************************************************)
(* Identity-token authority: token derivation (dna_utils.py), the CSV      *)
(* registry with register / verify / rotate (authority.py) and the JSON    *)
(* registry of the HTTP API (flask_api.py).                                *)
(*                                                                         *)
(* Text is a sequence of character codes (ord(c)), so that strip, lower,   *)
(* upper, the regular expressions and the hexadecimal rendering are        *)
(* computed as the code computes them.  Optional[str] is <<>> for None and *)
(* <<s>> for the string s.                                                 *)
(***************************************************************************)
EXTENDS Integers, Sequences, FiniteSets, TLC

\* ------------------------------------------------------------------ bounds
\* Number of clock ticks (operations) explored in one run.
MaxClock == 2
\* Offsets 0..MaxDraw-1 (and the largest one) are the draws of randbelow explored.
MaxDraw == 1
\* Longest FullCode handed directly to the windower.
MaxHexLen == 3
\* Largest window length handed directly to the windower.
MaxWin == 2

\* ------------------------------------------------------------ text helpers
None == <<>>
Some(s) == <<s>>

\* bool(salt): None and the empty string are falsy.
Truthy(salt) == salt # None /\ Len(salt[1]) > 0

IsDigit(c) == c \in 48..57
IsHexDigit(c) == c \in (48..57) \cup (65..70) \cup (97..102)
\* str.strip() with no argument removes ASCII whitespace.
IsSpace(c) == c \in {9, 10, 11, 12, 13, 28, 29, 30, 31, 32}

LowerChar(c) == IF c \in 65..90 THEN c + 32 ELSE c
UpperChar(c) == IF c \in 97..122 THEN c - 32 ELSE c
Lower(s) == [i \in 1..Len(s) |-> LowerChar(s[i])]
Upper(s) == [i \in 1..Len(s) |-> UpperChar(s[i])]

Strip(s) ==
    LET keep == {i \in 1..Len(s) : ~IsSpace(s[i])}
    IN  IF keep = {} THEN <<>>
        ELSE LET lo == CHOOSE i \in keep : \A j \in keep : i <= j
                 hi == CHOOSE i \in keep : \A j \in keep : j <= i
             IN  SubSeq(s, lo, hi)

\* s[a:b] of Python for 0 <= a, 0 <= b (0-based, end exclusive, clipped).
Slice(s, a, b) ==
    LET hi == IF b < Len(s) THEN b ELSE Len(s)
    IN  IF a >= hi THEN <<>> ELSE SubSeq(s, a + 1, hi)

\* s.rjust(w, '0')
RJustZero(s, w) ==
    IF Len(s) >= w THEN s ELSE [i \in 1..(w - Len(s)) |-> 48] \o s

\* s[-w:] for w > 0
LastChars(s, w) == IF Len(s) <= w THEN s ELSE SubSeq(s, Len(s) - w + 1, Len(s))

\* --------------------------------------------------------- dna_utils.py
NormalizeFields(ip, hostname, mac) ==
    <<Lower(Strip(ip)), Lower(Strip(hostname)), Lower(Strip(mac))>>

\* f"{ord(c):08b}" for every character (codes below 256: exactly 8 bits each).
StrToBinary(s) ==
    [k \in 1..(8 * Len(s)) |->
        LET c == s[((k - 1) \div 8) + 1]
            p == 7 - ((k - 1) % 8)
        IN  (c \div (2 ^ p)) % 2]

DnaTable(hi, lo) ==
    CASE hi = 0 /\ lo = 0 -> "A"
      [] hi = 0 /\ lo = 1 -> "C"
      [] hi = 1 /\ lo = 0 -> "G"
      [] hi = 1 /\ lo = 1 -> "T"

BinaryToDna(bits) ==
    LET b == IF Len(bits) % 2 # 0 THEN <<0>> \o bits ELSE bits
    IN  [j \in 1..(Len(b) \div 2) |-> DnaTable(b[2 * j - 1], b[2 * j])]

Base4Digit(letter) ==
    CASE letter = "A" -> 0
      [] letter = "C" -> 1
      [] letter = "G" -> 2
      [] letter = "T" -> 3

DnaToBase4Digits(dna) == [j \in 1..Len(dna) |-> Base4Digit(dna[j])]

\* The integer val = val * 4 + digit is unbounded in Python; it is kept here as
\* its base-4 digits without leading zeros (<<>> is 0).
Base4ToInt(base4) ==
    LET nz == {i \in 1..Len(base4) : base4[i] # 0}
    IN  IF nz = {} THEN <<>>
        ELSE SubSeq(base4, CHOOSE i \in nz : \A j \in nz : i <= j, Len(base4))

HexChar(v) == IF v < 10 THEN 48 + v ELSE 87 + v

\* format(n, 'x'): lowercase hexadecimal, no leading zeros, "0" for 0.
FormatHex(n) ==
    IF n = <<>> THEN <<48>>
    ELSE LET d == IF Len(n) % 2 # 0 THEN <<0>> \o n ELSE n
         IN  [j \in 1..(Len(d) \div 2) |-> HexChar(4 * d[2 * j - 1] + d[2 * j])]

Combined(ip, hostname, mac, salt) ==
    LET n == NormalizeFields(ip, hostname, mac)
        base == n[1] \o <<124>> \o n[2] \o <<124>> \o n[3]
    IN  IF Truthy(salt) THEN base \o <<124>> \o salt[1] ELSE base

GenerateFullHex(ip, hostname, mac, salt) ==
    FormatHex(Base4ToInt(DnaToBase4Digits(BinaryToDna(StrToBinary(
        Combined(ip, hostname, mac, salt))))))

\* secrets.randbelow(n): any of 0..n-1.
RandBelow(n) == IF n <= MaxDraw THEN 0..(n - 1) ELSE {0, n - 1}

\* generate_dna_token with max_offset one too large: the window can start one
\* character too far and run off the end of the code.
DnaTokensOffByOne(fullHex, randomWindow, windowLen) ==
    LET hexUpper == Upper(fullHex)
        L == Len(hexUpper)
    IN  IF L <= windowLen
        THEN {[full_hex |-> hexUpper,
               token |-> LastChars(RJustZero(hexUpper, windowLen), windowLen),
               offset |-> 0, window_len |-> windowLen]}
        ELSE LET offsets == IF randomWindow THEN RandBelow(L - windowLen + 2)
                            ELSE {L - windowLen}
             IN  {[full_hex |-> hexUpper,
                   token |-> Slice(hexUpper, o, o + windowLen),
                   offset |-> o, window_len |-> windowLen] : o \in offsets}

\* The dictionaries generate_dna_token can return for a given full_hex
\* (one per possible draw of the random offset).
DnaTokens(fullHex, randomWindow, windowLen) ==
    LET hexUpper == Upper(fullHex)
        L == Len(hexUpper)
    IN  IF L <= windowLen
        THEN {[full_hex |-> hexUpper,
               token |-> LastChars(RJustZero(hexUpper, windowLen), windowLen),
               offset |-> 0, window_len |-> windowLen]}
        ELSE LET offsets == IF randomWindow THEN RandBelow(L - windowLen + 1)
                            ELSE {L - windowLen}
             IN  {[full_hex |-> hexUpper,
                   token |-> Slice(hexUpper, o, o + windowLen),
                   offset |-> o, window_len |-> windowLen] : o \in offsets}

\* --------------------------------------------------------- authority.py
\* re.match(p + '$', s): '$' matches at the end and also just before a final
\* newline, so s matches when s, or s without its final newline, is in the
\* language of p.  MatchToEnd(s) is the set of those candidates.
MatchToEnd(s) ==
    {s} \cup (IF Len(s) > 0 /\ s[Len(s)] = 10 THEN {SubSeq(s, 1, Len(s) - 1)} ELSE {})

\* 25[0-5] | 2[0-4]\d | 1?\d?\d
OctetPattern(o) ==
    /\ Len(o) \in 1..3
    /\ \A i \in 1..Len(o) : IsDigit(o[i])
    /\ Len(o) = 3 =>
          \/ o[1] = 50 /\ o[2] = 53 /\ o[3] \in 48..53
          \/ o[1] = 50 /\ o[2] \in 48..52
          \/ o[1] = 49

\* (octet\.){3}octet
DottedQuadPattern(s) ==
    LET dots == {i \in 1..Len(s) : s[i] = 46}
        start(k) == IF k = 1 THEN 1
                    ELSE 1 + CHOOSE i \in dots : Cardinality({j \in dots : j < i}) = k - 2
        stop(k) == IF k = 4 THEN Len(s)
                   ELSE (CHOOSE i \in dots : Cardinality({j \in dots : j < i}) = k - 1) - 1
    IN  /\ Cardinality(dots) = 3
        /\ \A k \in 1..4 : start(k) <= stop(k) /\ OctetPattern(SubSeq(s, start(k), stop(k)))

is_valid_ip(ip) == \E w \in MatchToEnd(ip) : DottedQuadPattern(w)

\* ([0-9A-Fa-f]{2}:){5}[0-9A-Fa-f]{2}
MacColonPattern(s) ==
    /\ Len(s) = 17
    /\ \A i \in 1..17 : IF i % 3 = 0 THEN s[i] = 58 ELSE IsHexDigit(s[i])

\* [0-9A-Fa-f]{12}
MacBarePattern(s) == Len(s) = 12 /\ \A i \in 1..12 : IsHexDigit(s[i])

\* ([0-9A-Fa-f]{4}\.){2}[0-9A-Fa-f]{4}
MacDotPattern(s) ==
    /\ Len(s) = 14
    /\ \A i \in 1..14 : IF i % 5 = 0 THEN s[i] = 46 ELSE IsHexDigit(s[i])

is_valid_mac(mac) ==
    LET m == Strip(mac)
    IN  \E w \in MatchToEnd(m) :
            MacColonPattern(w) \/ MacBarePattern(w) \/ MacDotPattern(w)

\* ------------------------------------------------------------------ inputs
IpA == <<49, 46, 49, 46, 49, 46, 49>>                  \* "1.1.1.1"
IpNewline == IpA \o <<10>>                             \* "1.1.1.1\n"
IpBad == <<57, 57, 57, 46, 49, 46, 49, 46, 49>>        \* "999.1.1.1"
HostLower == <<104>>                                   \* "h"
HostUpper == <<72>>                                    \* "H"
MacColon == <<65, 65, 58, 66, 66, 58, 67, 67, 58, 68, 68, 58, 69, 69, 58, 70, 70>>
MacBad == <<110, 111, 110, 115, 101, 110, 115, 101>>   \* "nonsense"

\* The identity tuples callers present: a device, the same device with its
\* hostname in another case, the same hostname with a trailing newline in the
\* address, and two malformed tuples.
Identities ==
    { <<IpA, HostLower, MacColon>>, <<IpA, HostUpper, MacColon>>,
      <<IpNewline, HostLower, MacColon>>,
      <<IpBad, HostLower, MacColon>>, <<IpA, HostLower, MacBad>> }

SaltK == Some(<<107>>)                                 \* "k"
CallerSalts == {None, SaltK}
RotateDays == {7}

\* datetime.utcnow().date() is the 16th of October 2025 throughout a run.
TodayDay == 16
\* date.isoformat() of a day of that month: "2025-10-DD".
IsoDate(day) ==
    <<50, 48, 50, 53, 45, 49, 48, 45>> \o <<48 + (day \div 10), 48 + (day % 10)>>
SaltPrefix == <<101, 112, 111, 99, 104>>               \* "epoch"
\* f"{salt_prefix}-{epoch_date}"
EpochSalt(days) == Some(SaltPrefix \o <<45>> \o IsoDate(TodayDay + days))

VerifySalts == CallerSalts \cup {EpochSalt(d) : d \in RotateDays}

\* window_len=8, the default of generate_dna_token.
DefaultWindowLen == 8

\* is_valid_ip and is_valid_mac on the inputs of the model, computed once.
ValidIps == {ip \in {t[1] : t \in Identities} : is_valid_ip(ip)}
ValidMacs == {mac \in {t[3] : t \in Identities} : is_valid_mac(mac)}
IsValidIp(ip) ==
    IF ip \in {t[1] : t \in Identities} THEN ip \in ValidIps ELSE is_valid_ip(ip)
IsValidMac(mac) ==
    IF mac \in {t[3] : t \in Identities} THEN mac \in ValidMacs ELSE is_valid_mac(mac)

\* generate_full_hex on the inputs of the model, computed once.
FullHexGraph ==
    {<<t, s, GenerateFullHex(t[1], t[2], t[3], s)>> : t \in Identities, s \in VerifySalts}
generate_full_hex(ip, hostname, mac, salt) ==
    IF <<ip, hostname, mac>> \in Identities /\ salt \in VerifySalts
    THEN (CHOOSE g \in FullHexGraph : g[1] = <<ip, hostname, mac>> /\ g[2] = salt)[3]
    ELSE GenerateFullHex(ip, hostname, mac, salt)

\* ------------------------------------------------------------------- state
VARIABLES
    registry,   \* registry.csv: whether it exists, has its header line, and its rows
    issue,      \* history: per row of registry.csv, the salt its token was derived with
    clock,      \* readings of datetime.utcnow() so far
    last,       \* the last call: its arguments and what it returned or printed
    nodes,      \* node_registry.json: whether it exists, whether it parses, its rows
    pc,         \* per worker, where its register_node / rotate_tokens call stands
    mem,        \* per worker, the rows its call holds in memory
    acked,      \* history: the identity tuples whose register_node call has returned
    enc         \* the last two calls of generate_full_hex: arguments and result

vars == <<registry, issue, clock, last, nodes, pc, mem, acked, enc>>
apiVars == <<nodes>>
stepVars == <<pc, mem, acked>>

Workers == {1, 2}

NoDna == [full_hex |-> <<>>, token |-> <<>>, offset |-> 0, window_len |-> 0]
\* A Python value: the dictionary generate_dna_token returns, or the text
\* str(dict) that csv.DictWriter writes for it and csv.DictReader reads back.
Dict(d) == [py |-> "dict", of |-> d]
Str(d) == [py |-> "str", of |-> d]

NoCall ==
    [op |-> "none", ip |-> <<>>, hostname |-> <<>>, mac |-> <<>>, salt |-> None,
     arg |-> <<>>, outcome |-> "", ok |-> FALSE, dna |-> NoDna,
     existing |-> FALSE, wrote |-> FALSE, at |-> 0]

\* What csv.DictReader gives for the cells a short line lacks: None (restval).
\* MissingText is None in a text column, NoToken None in the token column and
\* NoCreated None in the created column.
MissingText == <<-1>>
NoToken == [py |-> "None", of |-> NoDna]
NoCreated == -1
\* The empty cell: what csv.DictWriter writes for None and DictReader reads back.
EmptyToken == [py |-> "str", of |-> NoDna]
EmptyCreated == 0
CsvCells(r) ==
    [ip |-> IF r.ip = MissingText THEN <<>> ELSE r.ip,
     hostname |-> IF r.hostname = MissingText THEN <<>> ELSE r.hostname,
     mac |-> IF r.mac = MissingText THEN <<>> ELSE r.mac,
     token |-> IF r.token = NoToken THEN EmptyToken ELSE r.token,
     created |-> IF r.created = NoCreated THEN EmptyCreated ELSE r.created]

NoFile == [exists |-> FALSE, header |-> FALSE, rows |-> <<>>]
\* A file as open('w') ... writeheader() ... writerows(rows) leaves it when closed.
Written(rows) ==
    [exists |-> TRUE, header |-> TRUE, rows |-> [i \in 1..Len(rows) |-> CsvCells(rows[i])]]

NoEnc == [ip |-> <<>>, hostname |-> <<>>, mac |-> <<>>, salt |-> None, full_hex |-> <<>>]

NoMem == [op |-> "none", ip |-> <<>>, hostname |-> <<>>, mac |-> <<>>,
          rows |-> <<>>, old |-> NoFile]

Init ==
    /\ registry = NoFile
    /\ issue = <<>>
    /\ clock = 0
    /\ last = NoCall
    /\ nodes = [exists |-> FALSE, json |-> FALSE, rows |-> <<>>]
    /\ pc = [w \in Workers |-> "idle"]
    /\ mem = [w \in Workers |-> NoMem]
    /\ acked = {}
    /\ enc = <<NoEnc, NoEnc>>

\* _ensure_registry(): create the file with its header when it does not exist.
EnsureRegistry(file) == IF file.exists THEN file ELSE Written(<<>>)

\* Row indices whose ip, mac and hostname are exactly those given.
SameNode(rows, ip, hostname, mac) ==
    {i \in 1..Len(rows) :
        rows[i].ip = ip /\ rows[i].mac = mac /\ rows[i].hostname = hostname}

First(S) == CHOOSE i \in S : \A j \in S : i <= j

\* register_node without its search for an existing row: every call appends.
RegisterRowsAlwaysAppend(rows, ip, hostname, mac, token, now) ==
    Append(rows, [ip |-> ip, hostname |-> hostname, mac |-> mac,
                  token |-> Str(token), created |-> now])

\* register_node refreshing the token of an existing row but not its timestamp.
RegisterRowsKeepCreated(rows, ip, hostname, mac, token, now) ==
    LET hit == SameNode(rows, ip, hostname, mac)
    IN  IF hit # {}
        THEN [rows EXCEPT ![First(hit)].token = Str(token)]
        ELSE Append(rows, [ip |-> ip, hostname |-> hostname, mac |-> mac,
                           token |-> Str(token), created |-> now])

\* register_node stamping every row it writes back with the time of the call.
RegisterRowsTouchAll(rows, ip, hostname, mac, token, now) ==
    LET hit == SameNode(rows, ip, hostname, mac)
        touched == [i \in 1..Len(rows) |-> [rows[i] EXCEPT !.created = now]]
    IN  IF hit # {}
        THEN [touched EXCEPT ![First(hit)].token = Str(token)]
        ELSE Append(touched, [ip |-> ip, hostname |-> hostname, mac |-> mac,
                              token |-> Str(token), created |-> now])

\* register_node replacing an existing row by a new one at the end of the file.
RegisterRowsMoveToEnd(rows, ip, hostname, mac, token, now) ==
    LET hit == SameNode(rows, ip, hostname, mac)
        others == IF hit = {} THEN rows
                  ELSE SubSeq(rows, 1, First(hit) - 1)
                          \o SubSeq(rows, First(hit) + 1, Len(rows))
    IN  Append(others, [ip |-> ip, hostname |-> hostname, mac |-> mac,
                        token |-> Str(token), created |-> now])

\* register_node's update-or-append of the rows read, as they are written back.
RegisterRows(rows, ip, hostname, mac, token, now) ==
    LET hit == SameNode(rows, ip, hostname, mac)
    IN  IF hit # {}
        THEN [rows EXCEPT ![First(hit)].token = Str(token), ![First(hit)].created = now]
        ELSE Append(rows, [ip |-> ip, hostname |-> hostname, mac |-> mac,
                           token |-> Str(token), created |-> now])

RegisterIssue(rows, ip, hostname, mac, salt) ==
    LET hit == SameNode(rows, ip, hostname, mac)
    IN  IF hit # {}
        THEN [issue EXCEPT ![First(hit)] = [salt |-> salt, old |-> @.salt, rotated |-> FALSE]]
        ELSE Append(issue, [salt |-> salt, old |-> salt, rotated |-> FALSE])

\* register_node, run from its first line to its return without interruption.
Register(ip, hostname, mac, salt) ==
    LET file == EnsureRegistry(registry)
        call == [NoCall EXCEPT !.op = "register", !.ip = ip, !.hostname = hostname,
                               !.mac = mac, !.salt = salt]
    IN  /\ UNCHANGED <<apiVars, stepVars, enc>>
        /\ IF ~IsValidIp(ip)
           THEN /\ registry' = file
                /\ last' = [call EXCEPT !.outcome = "Invalid IP address"]
                /\ UNCHANGED <<issue, clock>>
           ELSE IF ~IsValidMac(mac)
           THEN /\ registry' = file
                /\ last' = [call EXCEPT !.outcome = "Invalid MAC address"]
                /\ UNCHANGED <<issue, clock>>
           ELSE /\ clock < MaxClock
                /\ \E token \in DnaTokens(generate_full_hex(ip, hostname, mac, salt),
                                          TRUE, DefaultWindowLen) :
                     /\ registry' = Written(RegisterRows(file.rows, ip, hostname, mac,
                                                         token, clock + 1))
                     /\ last' = [call EXCEPT !.outcome = "Registered", !.ok = TRUE,
                                             !.dna = token, !.wrote = TRUE,
                                             !.at = clock + 1,
                                             !.existing =
                                                 SameNode(file.rows, ip, hostname, mac) # {}]
                /\ issue' = RegisterIssue(file.rows, ip, hostname, mac, salt)
                /\ clock' = clock + 1

\* verify_node comparing the hardware id alone.
VerifyMatchMacOnly(r, recomputed, ip, mac) == r.mac = mac

\* The condition under which verify_node prints 'Verification success'.
VerifyMatch(r, recomputed, ip, mac) ==
    r.token = recomputed /\ r.ip = ip /\ r.mac = mac

\* The rows verify_node looks at: those whose hostname is the one claimed.
HostRows(rows, hostname) == {i \in 1..Len(rows) : rows[i].hostname = hostname}

Verify(ip, hostname, mac, salt) ==
    LET file == EnsureRegistry(registry)
        call == [NoCall EXCEPT !.op = "verify", !.ip = ip, !.hostname = hostname,
                               !.mac = mac, !.salt = salt]
        found == HostRows(file.rows, hostname)
    IN  /\ registry' = file
        /\ UNCHANGED <<issue, clock, apiVars, stepVars, enc>>
        /\ IF ~IsValidIp(ip)
           THEN last' = [call EXCEPT !.outcome = "Invalid IP address"]
           ELSE IF ~IsValidMac(mac)
           THEN last' = [call EXCEPT !.outcome = "Invalid MAC address"]
           ELSE \E d \in DnaTokens(generate_full_hex(ip, hostname, mac, salt),
                                   TRUE, DefaultWindowLen) :
                  IF found = {}
                  THEN last' = [call EXCEPT !.outcome = "Hostname not registered",
                                            !.dna = d]
                  ELSE IF VerifyMatch(file.rows[First(found)], Dict(d), ip, mac)
                  THEN last' = [call EXCEPT !.outcome = "Verification success",
                                            !.ok = TRUE, !.dna = d]
                  ELSE last' = [call EXCEPT !.outcome = "Verification failed",
                                            !.dna = d]

\* The row sequences rotate_tokens can write: every row re-derived with the
\* new salt, each with its own draw of the offset.
RECURSIVE RotateRows(_, _, _)
RotateRows(rows, salt, now) ==
    IF rows = <<>> THEN {<<>>}
    ELSE LET r == rows[Len(rows)]
         IN  {Append(front, [r EXCEPT !.token = Str(t), !.created = now]) :
                 front \in RotateRows(SubSeq(rows, 1, Len(rows) - 1), salt, now),
                 t \in DnaTokens(generate_full_hex(r.ip, r.hostname, r.mac, salt),
                                 TRUE, DefaultWindowLen)}

\* The rows generate_dna_token cannot re-derive: _normalize calls strip() on
\* each of ip, hostname and mac, and None has no strip (AttributeError).
Underivable(rows) ==
    {i \in 1..Len(rows) : \/ rows[i].ip = MissingText
                          \/ rows[i].hostname = MissingText
                          \/ rows[i].mac = MissingText}

\* What rotate_tokens leaves behind when the loop over the rows raises.
RotateRaised(salt) ==
    [NoCall EXCEPT !.op = "rotate", !.salt = salt, !.outcome = "AttributeError"]

\* rotate_tokens, run from its first line to its return without interruption.
\* When a row cannot be re-derived the exception leaves the function before
\* the file is opened for writing; the time read is then discarded.
Rotate(days) ==
    LET file == EnsureRegistry(registry)
        salt == EpochSalt(days)
    IN  /\ UNCHANGED <<apiVars, stepVars, enc>>
        /\ IF Underivable(file.rows) # {}
           THEN /\ registry' = file
                /\ last' = RotateRaised(salt)
                /\ UNCHANGED <<issue, clock>>
           ELSE /\ clock < MaxClock
                /\ \E rows \in RotateRows(file.rows, salt, clock + 1) :
                      registry' = Written(rows)
                /\ issue' = [i \in 1..Len(issue) |->
                                [salt |-> salt, old |-> issue[i].salt, rotated |-> TRUE]]
                /\ clock' = clock + 1
                /\ last' = [NoCall EXCEPT !.op = "rotate", !.salt = salt, !.ok = TRUE,
                                          !.outcome = "Rotated", !.wrote = TRUE,
                                          !.at = clock + 1]

Next ==
    \/ \E t \in Identities, salt \in CallerSalts : Register(t[1], t[2], t[3], salt)
    \/ \E t \in Identities, salt \in VerifySalts : Verify(t[1], t[2], t[3], salt)
    \/ \E days \in RotateDays : Rotate(days)

\* Sequential use of authority.py: one call at a time.
Spec == Init /\ [][Next]_vars

\* The state after one register_node call of an earlier run: the registry
\* holds the entry of the first device, with any of the windows the call can
\* have drawn.
InitRegistered ==
    /\ \E d \in DnaTokens(generate_full_hex(IpA, HostLower, MacColon, None),
                           TRUE, DefaultWindowLen) :
          registry = Written(<<[ip |-> IpA, hostname |-> HostLower, mac |-> MacColon,
                                token |-> Str(d), created |-> 0]>>)
    /\ issue = <<[salt |-> None, old |-> None, rotated |-> FALSE]>>
    /\ clock = 0
    /\ last = NoCall
    /\ nodes = [exists |-> FALSE, json |-> FALSE, rows |-> <<>>]
    /\ pc = [w \in Workers |-> "idle"]
    /\ mem = [w \in Workers |-> NoMem]
    /\ acked = {}
    /\ enc = <<NoEnc, NoEnc>>

\* Sequential use of authority.py on a registry that already holds an entry.
SpecRegistered == InitRegistered /\ [][Next]_vars

\* ------------------------------------------------- dna_utils.py, the encoder
\* A hardware id in the bare form, and a hostname and a salt that contain the
\* separator or read like a field.
MacBare == <<97, 97, 98, 98, 99, 99, 100, 100, 101, 101, 102, 102>>   \* "aabbccddeeff"
HostBar == HostLower \o <<124>> \o MacBare                            \* "h|aabbccddeeff"
EncIdentities ==
    { <<IpA, HostLower, MacBare>>, <<IpA, HostUpper, MacBare>>,
      <<IpA, HostBar, MacBare>>, <<IpNewline, HostLower, MacColon>> }
EncSalts == {None, Some(<<>>), SaltK, Some(MacBare)}

\* generate_full_hex on the inputs of the encoder runs, computed once.
EncGraph ==
    {<<t, s, GenerateFullHex(t[1], t[2], t[3], s)>> : t \in EncIdentities, s \in EncSalts}

\* generate_full_hex(ip, hostname, mac, salt) called on a tuple that
\* is_valid_ip and is_valid_mac accept.
Encode(ip, hostname, mac, salt) ==
    /\ is_valid_ip(ip) /\ is_valid_mac(mac)
    /\ enc' = <<enc[2],
                [ip |-> ip, hostname |-> hostname, mac |-> mac, salt |-> salt,
                 full_hex |-> (CHOOSE g \in EncGraph :
                                  g[1] = <<ip, hostname, mac>> /\ g[2] = salt)[3]]>>
    /\ UNCHANGED <<registry, issue, clock, last, apiVars, stepVars>>

NextEncode == \E t \in EncIdentities, salt \in EncSalts : Encode(t[1], t[2], t[3], salt)

\* The encoder called as a library function, call after call.
SpecEncode == Init /\ [][NextEncode]_vars

\* ----------------------------------------------------------- flask_api.py
\* WINDOW_LEN = 8
WINDOW_LEN == 8

\* What the HTTP API is sent: a device, a tuple whose address no validator
\* would accept, and a request with its hostname left empty.
ApiIdentities ==
    { <<IpA, HostLower, MacColon>>, <<IpBad, HostLower, MacColon>>,
      <<IpA, <<>>, MacColon>> }
\* The tokens presented to /verify: the windows of the device's FullCode, or nothing.
ApiTokens ==
    {d.token : d \in DnaTokens(generate_full_hex(IpA, HostLower, MacColon, None),
                               TRUE, WINDOW_LEN)} \cup {<<>>}
\* The FullCodes handed to generate_dna_token directly (its full_hex argument):
\* the prefixes of "a1b2c3d4e5".
HexText == <<97, 49, 98, 50, 99, 51, 100, 52, 101, 53>>
HexSamples == {SubSeq(HexText, 1, n) : n \in 0..MaxHexLen}

\* _read_registry(): no file is an empty list, and so is a file json.load
\* cannot parse (JSONDecodeError).
ReadRegistry(file) == IF file.exists /\ file.json THEN file.rows ELSE <<>>

\* _write_registry(data): the file as json.dump leaves it when closed.
WriteRegistry(rows) == [exists |-> TRUE, json |-> TRUE, rows |-> rows]

ApiRow(ip, hostname, mac, d, created) ==
    [ip |-> ip, hostname |-> hostname, mac |-> mac, full_hex |-> d.full_hex,
     token |-> d.token, offset |-> d.offset, window_len |-> WINDOW_LEN,
     created |-> created]

\* POST /register
ApiRegister(ip, hostname, mac) ==
    LET call == [NoCall EXCEPT !.op = "api_register", !.ip = ip,
                               !.hostname = hostname, !.mac = mac]
        rows == ReadRegistry(nodes)
        hit == SameNode(rows, ip, hostname, mac)
    IN  /\ UNCHANGED <<registry, issue, stepVars, enc>>
        /\ IF ip = <<>> \/ hostname = <<>> \/ mac = <<>>
           THEN /\ last' = [call EXCEPT !.outcome = "All fields are required!"]
                /\ UNCHANGED <<nodes, clock>>
           ELSE /\ clock < MaxClock
                /\ clock' = clock + 1
                /\ \E d \in DnaTokens(generate_full_hex(ip, hostname, mac, None),
                                      TRUE, WINDOW_LEN) :
                     /\ nodes' =
                           WriteRegistry(IF hit # {}
                                         THEN [rows EXCEPT ![First(hit)] =
                                                  ApiRow(ip, hostname, mac, d, clock + 1)]
                                         ELSE Append(rows, ApiRow(ip, hostname, mac, d,
                                                                  clock + 1)))
                     /\ last' = [call EXCEPT !.outcome = "Node registered", !.ok = TRUE,
                                             !.dna = d, !.wrote = TRUE, !.at = clock + 1,
                                             !.existing = hit # {}]

\* POST /verify
ApiVerify(hostname, token) ==
    LET call == [NoCall EXCEPT !.op = "api_verify", !.hostname = hostname,
                               !.arg = token]
        rows == ReadRegistry(nodes)
    IN  /\ UNCHANGED <<registry, issue, clock, nodes, stepVars, enc>>
        /\ IF hostname = <<>> \/ token = <<>>
           THEN last' = [call EXCEPT !.outcome = "Hostname and token are required!"]
           ELSE IF \E i \in 1..Len(rows) :
                      /\ rows[i].hostname = hostname
                      /\ Slice(rows[i].full_hex, rows[i].offset,
                               rows[i].offset + rows[i].window_len) = token
           THEN last' = [call EXCEPT !.outcome = "Node verified successfully!",
                                     !.ok = TRUE]
           ELSE last' = [call EXCEPT !.outcome = "Node verification failed!"]

\* GET /rotate: every row re-derived without salt, with the trailing window.
ApiRotate ==
    LET rows == ReadRegistry(nodes)
        fresh(r) == CHOOSE d \in DnaTokens(generate_full_hex(r.ip, r.hostname, r.mac, None),
                                           FALSE, WINDOW_LEN) : TRUE
    IN  /\ clock < MaxClock
        /\ clock' = clock + 1
        /\ nodes' = WriteRegistry(
                        [i \in 1..Len(rows) |->
                            [rows[i] EXCEPT !.token = fresh(rows[i]).token,
                                            !.full_hex = fresh(rows[i]).full_hex,
                                            !.offset = fresh(rows[i]).offset,
                                            !.window_len = fresh(rows[i]).window_len,
                                            !.created = clock + 1]])
        /\ last' = [NoCall EXCEPT !.op = "api_rotate", !.ok = TRUE,
                                  !.outcome = "Tokens rotated", !.wrote = TRUE,
                                  !.at = clock + 1]
        /\ UNCHANGED <<registry, issue, stepVars, enc>>

\* generate_dna_token(..., full_hex=fullHex) called as a library function.
GenerateDnaToken(fullHex, randomWindow, windowLen) ==
    LET call == [NoCall EXCEPT !.op = "token", !.arg = fullHex,
                               !.at = windowLen]
    IN  /\ UNCHANGED <<registry, issue, clock, nodes, stepVars, enc>>
        /\ IF windowLen <= 0
           THEN last' = [call EXCEPT !.outcome = "window_len must be positive"]
           ELSE \E d \in DnaTokens(fullHex, randomWindow, windowLen) :
                  last' = [call EXCEPT !.outcome = "token", !.ok = TRUE, !.dna = d]

NextApi ==
    \/ \E t \in ApiIdentities : ApiRegister(t[1], t[2], t[3])
    \/ \E h \in {HostLower, HostUpper, <<>>}, token \in ApiTokens : ApiVerify(h, token)
    \/ ApiRotate
    \/ \E x \in HexSamples, rw \in BOOLEAN, wl \in 0..MaxWin : GenerateDnaToken(x, rw, wl)

\* The HTTP API of flask_api.py and the token library, one call at a time.
SpecApi == Init /\ [][NextApi]_vars

\* The state after the first device was registered with authority.py and with
\* the HTTP API in an earlier run, the API's tokens rotated since.
InitBothRegistered ==
    /\ \E d \in DnaTokens(generate_full_hex(IpA, HostLower, MacColon, None),
                           TRUE, DefaultWindowLen) :
          registry = Written(<<[ip |-> IpA, hostname |-> HostLower, mac |-> MacColon,
                                token |-> Str(d), created |-> 0]>>)
    /\ \E d \in DnaTokens(generate_full_hex(IpA, HostLower, MacColon, None),
                           FALSE, WINDOW_LEN) :
          nodes = WriteRegistry(<<ApiRow(IpA, HostLower, MacColon, d, 0)>>)
    /\ issue = <<[salt |-> None, old |-> None, rotated |-> FALSE]>>
    /\ clock = 0
    /\ last = NoCall
    /\ pc = [w \in Workers |-> "idle"]
    /\ mem = [w \in Workers |-> NoMem]
    /\ acked = {}
    /\ enc = <<NoEnc, NoEnc>>

\* register and verify of authority.py and of the HTTP API, one call at a time.
NextRegisterVerify ==
    \/ \E t \in Identities, salt \in CallerSalts : Register(t[1], t[2], t[3], salt)
    \/ \E t \in Identities : Verify(t[1], t[2], t[3], None)
    \/ \E t \in ApiIdentities : ApiRegister(t[1], t[2], t[3])
    \/ \E h \in {HostLower, HostUpper, <<>>}, token \in ApiTokens : ApiVerify(h, token)

SpecRegisterVerify == InitBothRegistered /\ [][NextRegisterVerify]_vars

\* POST /register whose process dies inside _write_registry: open(..., "w") has
\* truncated the file and json.dump has written a part of the text, here the
\* rows that come before the one this call registers.  A text cut before its
\* closing bracket does not parse.
ApiRegisterCrash(ip, hostname, mac) ==
    LET rows == ReadRegistry(nodes)
        hit == SameNode(rows, ip, hostname, mac)
        at == IF hit # {} THEN First(hit) ELSE Len(rows) + 1
    IN  /\ ip # <<>> /\ hostname # <<>> /\ mac # <<>>
        /\ \E k \in 0..(at - 1) :
              nodes' = [exists |-> TRUE, json |-> FALSE, rows |-> SubSeq(rows, 1, k)]
        /\ last' = [NoCall EXCEPT !.op = "api_register", !.ip = ip,
                                  !.hostname = hostname, !.mac = mac,
                                  !.outcome = "died"]
        /\ UNCHANGED <<registry, issue, clock, stepVars, enc>>

NextApiCrash ==
    \/ NextApi
    \/ \E t \in ApiIdentities : ApiRegisterCrash(t[1], t[2], t[3])

\* The HTTP API whose process may die while it writes node_registry.json.
SpecApiCrash == Init /\ [][NextApiCrash]_vars

\* Every operation that takes a window or writes one to a registry: the HTTP
\* API and the token library, and register_node and rotate_tokens.
NextWindow ==
    \/ NextApi
    \/ \E t \in ApiIdentities, salt \in CallerSalts : Register(t[1], t[2], t[3], salt)
    \/ \E days \in RotateDays : Rotate(days)

SpecWindow == Init /\ [][NextWindow]_vars

\* ------------------------------------------- authority.py, file step by file step
\* register_node up to its open(..., 'w'): the file is ensured, the arguments
\* validated, the token drawn, the clock read, the rows read and updated in memory.
RegLoad(w, ip, hostname, mac, salt) ==
    LET file == EnsureRegistry(registry)
    IN  /\ pc[w] = "idle"
        /\ registry' = file
        /\ UNCHANGED <<issue, last, apiVars, enc, acked>>
        /\ IF ~IsValidIp(ip) \/ ~IsValidMac(mac)
           THEN UNCHANGED <<clock, pc, mem>>
           ELSE /\ clock < MaxClock
                /\ clock' = clock + 1
                /\ pc' = [pc EXCEPT ![w] = "loaded"]
                /\ \E token \in DnaTokens(generate_full_hex(ip, hostname, mac, salt),
                                          TRUE, DefaultWindowLen) :
                     mem' = [mem EXCEPT ![w] =
                                [op |-> "register", ip |-> ip, hostname |-> hostname,
                                 mac |-> mac, old |-> file,
                                 rows |-> RegisterRows(file.rows, ip, hostname, mac,
                                                       token, clock + 1)]]

\* A rotate_tokens that would write each row back as soon as it is re-derived:
\* when a row cannot be re-derived, the rows before it are already persisted
\* with their new tokens.
RotLoadWriteEach(w, days) ==
    LET file == EnsureRegistry(registry)
        bad == Underivable(file.rows)
    IN  /\ pc[w] = "idle"
        /\ UNCHANGED <<issue, apiVars, enc, acked>>
        /\ IF bad # {}
           THEN /\ \E rows \in RotateRows(SubSeq(file.rows, 1, First(bad) - 1),
                                           EpochSalt(days), clock + 1) :
                      registry' = [file EXCEPT !.rows =
                                      rows \o SubSeq(file.rows, First(bad), Len(file.rows))]
                /\ last' = RotateRaised(EpochSalt(days))
                /\ UNCHANGED <<clock, pc, mem>>
           ELSE /\ clock < MaxClock
                /\ registry' = file
                /\ clock' = clock + 1
                /\ pc' = [pc EXCEPT ![w] = "loaded"]
                /\ \E rows \in RotateRows(file.rows, EpochSalt(days), clock + 1) :
                      mem' = [mem EXCEPT ![w] = [NoMem EXCEPT !.op = "rotate",
                                                              !.old = file, !.rows = rows]]
                /\ UNCHANGED last

\* rotate_tokens up to its open(..., 'w'), or up to the exception that a row
\* that cannot be re-derived raises in the loop before it.
RotLoad(w, days) ==
    LET file == EnsureRegistry(registry)
    IN  /\ pc[w] = "idle"
        /\ UNCHANGED <<issue, apiVars, enc, acked>>
        /\ IF Underivable(file.rows) # {}
           THEN /\ registry' = file
                /\ last' = RotateRaised(EpochSalt(days))
                /\ UNCHANGED <<clock, pc, mem>>
           ELSE /\ clock < MaxClock
                /\ registry' = file
                /\ clock' = clock + 1
                /\ pc' = [pc EXCEPT ![w] = "loaded"]
                /\ \E rows \in RotateRows(file.rows, EpochSalt(days), clock + 1) :
                      mem' = [mem EXCEPT ![w] = [NoMem EXCEPT !.op = "rotate",
                                                              !.old = file, !.rows = rows]]
                /\ UNCHANGED last

\* REGISTRY.open('w', newline=''): the file is truncated.
Truncated == [exists |-> TRUE, header |-> FALSE, rows |-> <<>>]
Open(w) ==
    /\ pc[w] = "loaded"
    /\ registry' = Truncated
    /\ pc' = [pc EXCEPT ![w] = "opened"]
    /\ UNCHANGED <<issue, clock, last, apiVars, enc, mem, acked>>

\* writeheader(), writerows(rows), the file closed, and the call returns.
Close(w) ==
    /\ pc[w] = "opened"
    /\ registry' = Written(mem[w].rows)
    /\ pc' = [pc EXCEPT ![w] = "idle"]
    /\ acked' = acked \cup {<<mem[w].op, mem[w].ip, mem[w].hostname, mem[w].mac>>}
    /\ mem' = [mem EXCEPT ![w] = NoMem]
    /\ UNCHANGED <<issue, clock, last, apiVars, enc>>

\* A line of the file cut after its hostname, as csv.DictReader reads it: the
\* cells that were not written are None.
Torn(r) == [r EXCEPT !.mac = MissingText, !.token = NoToken, !.created = NoCreated]

\* What a file opened with 'w' holds when the process dies before the close:
\* nothing, or the header and the rows flushed so far, the last of them whole
\* or cut short.
Partial(rows) ==
    {Truncated}
        \cup {Written(SubSeq(rows, 1, k)) : k \in 0..Len(rows)}
        \cup {[Written(SubSeq(rows, 1, k)) EXCEPT !.rows[k] = Torn(@)] : k \in 1..Len(rows)}

\* The process running the call dies.
Crash(w) ==
    /\ pc[w] \in {"loaded", "opened"}
    /\ IF pc[w] = "opened"
       THEN registry' \in Partial(mem[w].rows)
       ELSE UNCHANGED registry
    /\ pc' = [pc EXCEPT ![w] = "crashed"]
    /\ UNCHANGED <<issue, clock, last, apiVars, enc, mem, acked>>

\* A new process takes the place of the dead one.
Restart(w) ==
    /\ pc[w] = "crashed"
    /\ pc' = [pc EXCEPT ![w] = "idle"]
    /\ mem' = [mem EXCEPT ![w] = NoMem]
    /\ UNCHANGED <<registry, issue, clock, last, apiVars, enc, acked>>

NextConc ==
    \E w \in Workers :
        \/ \E t \in Identities, salt \in CallerSalts : RegLoad(w, t[1], t[2], t[3], salt)
        \/ \E days \in RotateDays : RotLoad(w, days)
        \/ Open(w)
        \/ Close(w)

\* Two callers of authority.py at once (two requests of the web UI, or two
\* command lines), their file operations interleaved; nobody dies.
SpecConc == Init /\ [][NextConc]_vars

NextCrash ==
    \/ \E t \in Identities, salt \in CallerSalts : RegLoad(1, t[1], t[2], t[3], salt)
    \/ \E days \in RotateDays : RotLoad(1, days)
    \/ Open(1)
    \/ Close(1)
    \/ Crash(1)
    \/ Restart(1)

\* One caller of authority.py whose process may die at any file operation.
SpecCrash == Init /\ [][NextCrash]_vars

\* ------------------------------------------------------------------ claims
Rows == registry.rows
\* The row verify_node decides on: the first one with the claimed hostname.
LastHostRow == Rows[First(HostRows(Rows, last.hostname))]
\* The window of the FullCode re-derived from the claimed tuple and salt, taken
\* at the offset and window length stored in row r.
StoredWindow(r) ==
    Slice(Upper(generate_full_hex(last.ip, last.hostname, last.mac, last.salt)),
          r.token.of.offset, r.token.of.offset + r.token.of.window_len)
\* The last call was a verify of a tuple whose row is the first one of its
\* hostname; that row is LastHostRow.
VerifiedOwnRow ==
    /\ last.op = "verify"
    /\ SameNode(Rows, last.ip, last.hostname, last.mac) # {}
    /\ First(SameNode(Rows, last.ip, last.hostname, last.mac))
          = First(HostRows(Rows, last.hostname))
LastIssue == issue[First(HostRows(Rows, last.hostname))]

\* C1: a tuple registered with salt s and neither rotated nor re-registered
\* since is verified (ok = true) with the same salt, whatever offset was drawn
\* at registration.
C1_RoundTripVerify ==
    (VerifiedOwnRow /\ ~LastIssue.rotated /\ LastIssue.salt = last.salt) => last.ok

\* C2: verify takes its window at the offset and window length stored in the
\* registry entry; it draws no offset of its own.
C2_VerifyUsesStoredOffset ==
    (last.op = "verify" /\ last.outcome \in {"Verification success", "Verification failed"})
        => /\ last.dna.offset = LastHostRow.token.of.offset
           /\ last.dna.window_len = LastHostRow.token.of.window_len

Normalized(r) == NormalizeFields(r.ip, r.hostname, r.mac)

\* C3 (as stated): the registry holds at most one entry per identity tuple,
\* two tuples being the same when their trimmed, lowercased fields are equal.
C3_OneEntryPerNormalizedTuple ==
    \A i, j \in 1..Len(Rows) : Normalized(Rows[i]) = Normalized(Rows[j]) => i = j

\* C3 (amended): the registry holds at most one entry per identity tuple, two
\* tuples being the same when their address, hostname and hardware id are
\* equal character for character.
C3_OneEntryPerExactTuple ==
    \A i, j \in 1..Len(Rows) :
        (Rows[i].ip = Rows[j].ip /\ Rows[i].hostname = Rows[j].hostname
            /\ Rows[i].mac = Rows[j].mac) => i = j

\* A tuple was registered again and the registry still holds one row.
C3_Witness == last.op = "register" /\ last.existing /\ Len(Rows) = 1 /\ clock = 2

C6_RotationInvalidatesOldSalt ==
    (VerifiedOwnRow /\ LastIssue.rotated) =>
        /\ last.salt = LastIssue.salt => last.ok
        /\ (last.salt = LastIssue.old /\ LastIssue.old # LastIssue.salt) => ~last.ok

\* A dotted quad of decimal octets 0..255, nothing before or after it.
IsDottedQuad(s) ==
    LET dots == {i \in 1..Len(s) : s[i] = 46}
        cut == [k \in 0..4 |-> IF k = 0 THEN 0
                               ELSE IF k = 4 THEN Len(s) + 1
                               ELSE CHOOSE i \in dots : Cardinality({j \in dots : j < i}) = k - 1]
        octet(k) == SubSeq(s, cut[k - 1] + 1, cut[k] - 1)
        value(o) == IF Len(o) = 1 THEN o[1] - 48
                    ELSE IF Len(o) = 2 THEN 10 * (o[1] - 48) + (o[2] - 48)
                    ELSE 100 * (o[1] - 48) + 10 * (o[2] - 48) + (o[3] - 48)
    IN  /\ Cardinality(dots) = 3
        /\ \A k \in 1..4 :
              /\ Len(octet(k)) \in 1..3
              /\ \A i \in 1..Len(octet(k)) : IsDigit(octet(k)[i])
              /\ value(octet(k)) <= 255

IsHardwareForm(s) == MacColonPattern(s) \/ MacBarePattern(s) \/ MacDotPattern(s)

\* C7: register with an address that is not a dotted quad fails with the
\* invalid-address error, register with a hardware id in none of the three
\* forms fails with the invalid-hardware-id error, and neither issues a token
\* or writes the registry.
C7_InputRejection ==
    last.op = "register" =>
        /\ ~IsDottedQuad(last.ip) =>
              last.outcome = "Invalid IP address" /\ last.dna = NoDna /\ ~last.wrote
        /\ (IsDottedQuad(last.ip) /\ ~IsHardwareForm(last.mac)) =>
              last.outcome = "Invalid MAC address" /\ last.dna = NoDna /\ ~last.wrote

\* C9: after a successful register the registry holds exactly one row for the
\* tuple, and that row carries the token returned by this call and the time
\* of this call, also when the tuple was registered before.
C9_ReRegistrationSupersedes ==
    (last.op = "register" /\ last.ok) =>
        LET hit == SameNode(Rows, last.ip, last.hostname, last.mac)
        IN  /\ Cardinality(hit) = 1
            /\ \A i \in hit : Rows[i].token = Str(last.dna) /\ Rows[i].created = last.at

\* The second registration of a tuple returned, with another window than the first.
C9_Witness ==
    /\ last.op = "register" /\ last.ok /\ last.existing /\ last.at = 2
    /\ last.dna.offset > 0

\* The last register calls to return were of two different tuples and no
\* rotation ran.
TwoRegistered ==
    /\ Cardinality(acked) = 2
    /\ \A a \in acked : a[1] = "register"
    /\ \A w \in Workers : pc[w] = "idle"

\* C4: when two register calls for distinct tuples have both returned, however
\* their file operations interleaved, the registry holds both tuples' entries.
C4_NoLostUpdate ==
    TwoRegistered => \A a \in acked : SameNode(Rows, a[2], a[3], a[4]) # {}

\* d is the window the windower takes of fullCode.
WellWindowed(fullCode, d) ==
    LET up == Upper(fullCode)
        L == Len(up)
    IN  /\ d.full_hex = up
        /\ Len(d.token) = d.window_len
        /\ 0 <= d.offset
        /\ d.offset <= (IF L > d.window_len THEN L - d.window_len ELSE 0)
        /\ IF L <= d.window_len
           THEN d.offset = 0 /\ d.token = RJustZero(up, d.window_len)
           ELSE d.token = Slice(up, d.offset, d.offset + d.window_len)

\* C8: every windower output and every entry of the CSV registry and of the
\* JSON registry written by register or rotate has a token of window_len
\* characters taken from the uppercased FullCode at an offset between 0 and
\* max(0, len - window_len); a FullCode no longer than the window gives offset
\* 0 and the code left-padded with '0'.
C8_WindowInvariant ==
    /\ (last.op = "token" /\ last.ok) =>
          WellWindowed(last.arg, last.dna) /\ last.dna.window_len = last.at
    /\ (last.op = "api_register" /\ last.ok) =>
          WellWindowed(generate_full_hex(last.ip, last.hostname, last.mac, None), last.dna)
    /\ \A i \in 1..Len(Rows) :
          WellWindowed(generate_full_hex(Rows[i].ip, Rows[i].hostname, Rows[i].mac,
                                         issue[i].salt), Rows[i].token.of)
    /\ \A i \in 1..Len(nodes.rows) :
          LET r == nodes.rows[i]
          IN  WellWindowed(generate_full_hex(r.ip, r.hostname, r.mac, None),
                           [full_hex |-> r.full_hex, token |-> r.token,
                            offset |-> r.offset, window_len |-> r.window_len])

\* The windower padded a FullCode shorter than the window, and the CSV registry
\* and the JSON registry each hold a row whose window does not start at 0.
C8_Witness ==
    /\ last.op = "token" /\ last.ok
    /\ 0 < Len(last.arg) /\ Len(last.arg) < last.dna.window_len
    /\ \E i \in 1..Len(nodes.rows) : nodes.rows[i].offset > 0
    /\ \E i \in 1..Len(Rows) : Rows[i].token.of.offset > 0

\* C10: when the process dies during the write-back of register or rotate, the
\* registry file holds the complete previous collection of rows or the
\* complete new one.
C10_AtomicWrite ==
    \A w \in Workers :
        pc[w] = "crashed" => Rows = mem[w].old.rows \/ Rows = mem[w].rows

\* C11: a rotate whose re-derivation fails for an entry leaves the persisted
\* registry exactly as it was before the call.
C11_RotationAllOrNothing ==
    [][(last'.op = "rotate" /\ ~last'.ok /\ last' # last) => registry' = registry]_vars

\* A rotate failed on a registry holding a whole entry followed by one that
\* cannot be re-derived; the whole entry has the token it had.
C11_Witness ==
    /\ last.op = "rotate" /\ last.outcome = "AttributeError"
    /\ Len(Rows) = 2 /\ Underivable(Rows) = {2}
    /\ Rows[1].token.of.full_hex
          = Upper(generate_full_hex(Rows[1].ip, Rows[1].hostname, Rows[1].mac, None))

\* The JSON registry is present and its content does not parse.
Malformed == nodes.exists /\ ~nodes.json

\* C12: when the persisted content is present but malformed, no operation
\* writes the registry: the content is not replaced.
C12_CorruptLoadAborts ==
    [][Malformed => nodes' = nodes]_vars

\* The reasons a message printed by verify_node stands for.
\* 'Verification failed: token or identity mismatch' names two of them.
Reasons(outcome) ==
    IF outcome \in {"Invalid IP address", "Invalid MAC address"} THEN {"InvalidInput"}
    ELSE IF outcome = "Hostname not registered" THEN {"UnknownHostname"}
    ELSE IF outcome = "Verification failed" THEN {"TokenMismatch", "IdentityMismatch"}
    ELSE IF outcome = "Verification success" THEN {"Ok"}
    ELSE {}

\* The reasons that apply to the last verify, given the registry it read.
Applicable ==
    IF ~IsDottedQuad(last.ip) \/ ~IsHardwareForm(Strip(last.mac)) THEN {"InvalidInput"}
    ELSE IF HostRows(Rows, last.hostname) = {} THEN {"UnknownHostname"}
    ELSE LET tokenDiffers == LastHostRow.token # Dict(last.dna)
             identityDiffers == last.ip # LastHostRow.ip \/ last.mac # LastHostRow.mac
         IN  IF ~tokenDiffers /\ ~identityDiffers THEN {"Ok"}
             ELSE (IF tokenDiffers THEN {"TokenMismatch"} ELSE {})
                     \cup (IF identityDiffers THEN {"IdentityMismatch"} ELSE {})

\* C13: verify reports exactly one of InvalidInput, UnknownHostname,
\* TokenMismatch and IdentityMismatch (or success), the one that applies; a
\* mismatch is a returned result and is not merged with another reason.
C13_FourOutcomes ==
    last.op = "verify" =>
        /\ Cardinality(Reasons(last.outcome)) = 1
        /\ Reasons(last.outcome) \subseteq Applicable

\* The identity tuples of the rows, in file order.
Tuples(rows) == [i \in 1..Len(rows) |-> <<rows[i].ip, rows[i].hostname, rows[i].mac>>]

\* C14: no operation removes or moves an entry: the tuples the registry held
\* before a step are, in the same order, the first tuples it holds after it,
\* so the entries stay in the order in which they were first registered.
C14_NeverRemovedInOrder ==
    [][/\ Len(registry'.rows) >= Len(Rows)
       /\ SubSeq(Tuples(registry'.rows), 1, Len(Rows)) = Tuples(Rows)]_vars

\* The first of two entries was registered again after the second had been
\* registered, and the two entries are where they were.
C14_Witness ==
    /\ Len(Rows) = 2 /\ clock = MaxClock
    /\ Rows[1].created > Rows[2].created
    /\ Rows[2].created > 0

\* C15: two encoder calls on validated tuples whose normalized address,
\* hostname, hardware id or salt differ (an absent salt differing from an empty
\* one) give different FullCodes.
C15_EncoderInjective ==
    (enc[1] # NoEnc /\ enc[2] # NoEnc) =>
        ((\/ NormalizeFields(enc[1].ip, enc[1].hostname, enc[1].mac)
                # NormalizeFields(enc[2].ip, enc[2].hostname, enc[2].mac)
          \/ enc[1].salt # enc[2].salt)
            => enc[1].full_hex # enc[2].full_hex)

\* The entries of the JSON registry, and the first one with the hostname of
\* the last call.
ApiRows == ReadRegistry(nodes)
FirstApiHostRow == ApiRows[First(HostRows(ApiRows, last.hostname))]

\* C16: a verify of a hostname that has entries is decided by the first entry
\* with that hostname alone: it succeeds exactly when the token presented is
\* the window stored in that entry, whatever later entries hold.
C16_FirstHostnameEntryDecides ==
    (/\ last.op = "api_verify"
     /\ last.hostname # <<>> /\ last.arg # <<>>
     /\ HostRows(ApiRows, last.hostname) # {}) =>
        (last.ok <=> Slice(FirstApiHostRow.full_hex, FirstApiHostRow.offset,
                           FirstApiHostRow.offset + FirstApiHostRow.window_len) = last.arg)

\* Every row of before whose tuple is not the one of the last call is, at the
\* same place and with the same fields, a row of after.
OthersKept(before, after) ==
    /\ Len(after) >= Len(before)
    /\ \A i \in 1..Len(before) :
          <<before[i].ip, before[i].hostname, before[i].mac>>
              # <<last'.ip, last'.hostname, last'.mac>> => after[i] = before[i]

\* C17: a register changes at most the entry of its own tuple, or appends it,
\* and leaves every field of every other entry as it was; a verify changes no
\* entry, whatever its outcome.
C17_FrameOfRegisterAndVerify ==
    [][/\ last'.op = "register" => OthersKept(Rows, registry'.rows)
       /\ last'.op = "verify" => registry'.rows = Rows
       /\ last'.op = "api_register" => OthersKept(ApiRows, nodes'.rows)
       /\ last'.op = "api_verify" => nodes' = nodes]_vars

\* A tuple was registered again, in authority.py's registry, while the entry
\* of another tuple stood before it with an older token.
C17_Witness ==
    /\ last.op = "register" /\ last.ok /\ last.existing
    /\ Len(Rows) = 2
    /\ <<Rows[2].ip, Rows[2].hostname, Rows[2].mac>> = <<last.ip, last.hostname, last.mac>>
    /\ Rows[1].created = 0 /\ Rows[2].created = 2

====
